---- MODULE Spec2Model ----
(***************************************************************************)
(* Windhager climate entities (custom_components/windhager/climate.py).    *)
(*                                                                         *)
(* Two entities of one device share one register prefix: the biased        *)
(* entity (WindhagerThermostatClimate) and the unbiased one                *)
(* (WindhagerThermostatClimateWithoutBias).  Both read the coordinator's   *)
(* snapshot of the register table (coordinator.data["oids"]) and write     *)
(* registers through client.update.                                       *)
(*                                                                         *)
(* Register values are strings, modelled as sequences of one-character     *)
(* strings, so that int(), float() and str() are computed.  A float is a   *)
(* whole number of tenths (21.5 is 215).                                   *)
(***************************************************************************)
EXTENDS Integers, Sequences, FiniteSets, TLC

\* ------------------------------------------------------------- bounds
\* commands issued in one behaviour
MaxCmds == 2

\* ------------------------------------------------------ register paths
CurrentTempOid == "/0/0/1/0"
TargetTempOid == "/0/1/1/0"
OverrideOid == "/0/2/10/0"
SetpointOid == "/0/3/4/0"
ModeOid == "/0/3/50/0"
BiasOid == "/0/3/58/0"

AllOids == {CurrentTempOid, TargetTempOid, OverrideOid, SetpointOid, ModeOid, BiasOid}

\* ------------------------------------------------------- Python values
PyStr(s) == [t |-> "str", s |-> s, n |-> 0]
PyInt(n) == [t |-> "int", s |-> <<>>, n |-> n]
PyFloat(x) == [t |-> "float", s |-> <<>>, n |-> x]
PyNone == [t |-> "NoneType", s |-> <<>>, n |-> 0]
\* an exception that leaves the function
Raised(kind) == [t |-> kind, s |-> <<>>, n |-> 0]

Exceptions == {"ValueError", "TypeError", "IndexError"}
IsRaised(v) == v.t \in Exceptions

Digits == <<"0", "1", "2", "3", "4", "5", "6", "7", "8", "9">>
DigitSet == {Digits[i] : i \in 1..10}
DigitVal(c) == (CHOOSE i \in 1..10 : Digits[i] = c) - 1

IsDigits(s) == Len(s) > 0 /\ \A i \in 1..Len(s) : s[i] \in DigitSet

RECURSIVE DigitsVal(_)
DigitsVal(s) ==
    IF Len(s) = 0 THEN 0
    ELSE 10 * DigitsVal(SubSeq(s, 1, Len(s) - 1)) + DigitVal(s[Len(s)])

HasSign(s) == Len(s) > 0 /\ s[1] \in {"-", "+"}
Unsigned(s) == IF HasSign(s) THEN SubSeq(s, 2, Len(s)) ELSE s
SignOf(s) == IF Len(s) > 0 /\ s[1] = "-" THEN -1 ELSE 1

\* int(x): a string must be an optional sign and decimal digits
int(x) ==
    CASE x.t = "int" -> x
      [] x.t = "str" ->
            IF IsDigits(Unsigned(x.s))
            THEN PyInt(SignOf(x.s) * DigitsVal(Unsigned(x.s)))
            ELSE Raised("ValueError")
      [] OTHER -> Raised("TypeError")

DotAt(s) == {i \in 1..Len(s) : s[i] = "."}

\* the tenths a decimal literal with at most one fraction digit stands for
FloatLiteralOk(u) ==
    \/ IsDigits(u)
    \/ /\ Cardinality(DotAt(u)) = 1
       /\ LET d == CHOOSE i \in DotAt(u) : TRUE
              ip == SubSeq(u, 1, d - 1)
              fp == SubSeq(u, d + 1, Len(u))
          IN /\ Len(ip) + Len(fp) > 0
             /\ Len(ip) = 0 \/ IsDigits(ip)
             /\ Len(fp) = 0 \/ (IsDigits(fp) /\ Len(fp) = 1)

FloatLiteralVal(u) ==
    IF IsDigits(u) THEN 10 * DigitsVal(u)
    ELSE LET d == CHOOSE i \in DotAt(u) : TRUE
             ip == SubSeq(u, 1, d - 1)
             fp == SubSeq(u, d + 1, Len(u))
         IN 10 * DigitsVal(ip) + DigitsVal(fp)

\* float(x)
float(x) ==
    CASE x.t = "float" -> x
      [] x.t = "int" -> PyFloat(10 * x.n)
      [] x.t = "str" ->
            IF FloatLiteralOk(Unsigned(x.s))
            THEN PyFloat(SignOf(x.s) * FloatLiteralVal(Unsigned(x.s)))
            ELSE Raised("ValueError")
      [] OTHER -> Raised("TypeError")

RECURSIVE NatStr(_)
NatStr(n) == IF n < 10 THEN <<Digits[n + 1]>> ELSE NatStr(n \div 10) \o <<Digits[(n % 10) + 1]>>

Abs(n) == IF n < 0 THEN -n ELSE n

\* str(x) of an int, a float or None
str(x) ==
    CASE x.t = "int" -> (IF x.n < 0 THEN <<"-">> ELSE <<>>) \o NatStr(Abs(x.n))
      [] x.t = "float" ->
            (IF x.n < 0 THEN <<"-">> ELSE <<>>)
                \o NatStr(Abs(x.n) \div 10) \o <<".">> \o NatStr(Abs(x.n) % 10)
      [] x.t = "NoneType" -> <<"N", "o", "n", "e">>
      [] OTHER -> x.s

\* a - b of two floats; an exception in an operand leaves first
FloatSub(a, b) ==
    IF IsRaised(a) THEN a
    ELSE IF IsRaised(b) THEN b
    ELSE PyFloat(a.n - b.n)

\* try: ... except (ValueError, TypeError): log a warning, return None
Caught(v) == IF v.t \in {"ValueError", "TypeError"} THEN PyNone ELSE v

\* dict.get(path, default) on a register table
Get(regs, path, default) == IF path \in DOMAIN regs THEN PyStr(regs[path]) ELSE default

\* --------------------------------------------------------- the entities
Biased == "biased"
Unbiased == "unbiased"
Entities == {Biased, Unbiased}

\* self._preset_modes
preset_modes == <<<<"0">>, <<"1">>, <<"2">>, <<"3">>, <<"4">>, <<"5">>, <<"6">>, <<"7">>>>

\* list[i]: negative indexes count from the end
ListGet(list, i) ==
    IF i.t # "int" THEN Raised("TypeError")
    ELSE IF i.n >= 0 /\ i.n < Len(list) THEN PyStr(list[i.n + 1])
    ELSE IF i.n < 0 /\ -i.n <= Len(list) THEN PyStr(list[Len(list) + i.n + 1])
    ELSE Raised("IndexError")

\* faulty variant: a label that is not in the list selects position 0
ListIndex_first(list, x) ==
    IF \E i \in 1..Len(list) : list[i] = x
    THEN PyInt((CHOOSE i \in 1..Len(list) : list[i] = x /\ \A j \in 1..(i - 1) : list[j] # x) - 1)
    ELSE PyInt(0)

\* list.index(x): the first position of x, ValueError when x is not in the list
ListIndex(list, x) ==
    IF \E i \in 1..Len(list) : list[i] = x
    THEN PyInt((CHOOSE i \in 1..Len(list) : list[i] = x /\ \A j \in 1..(i - 1) : list[j] # x) - 1)
    ELSE Raised("ValueError")

\* ------------------------------------------------- derived properties
current_temperature(e, regs) ==
    IF e = Biased
    THEN Caught(FloatSub(float(Get(regs, CurrentTempOid, PyStr(<<"0">>))),
                         float(Get(regs, BiasOid, PyStr(<<"0">>)))))
    ELSE Caught(float(Get(regs, CurrentTempOid, PyStr(<<"0">>))))

\* faulty variant: the target is read back from the setpoint register
target_temperature_setpoint(e, regs) ==
    IF e = Biased
    THEN Caught(FloatSub(float(Get(regs, SetpointOid, PyStr(<<"0">>))),
                         float(Get(regs, BiasOid, PyStr(<<"0">>)))))
    ELSE Caught(float(Get(regs, SetpointOid, PyNone)))

target_temperature(e, regs) ==
    IF e = Biased
    THEN Caught(FloatSub(float(Get(regs, TargetTempOid, PyStr(<<"0">>))),
                         float(Get(regs, BiasOid, PyStr(<<"0">>)))))
    ELSE Caught(float(Get(regs, TargetTempOid, PyNone)))

raw_custom_temp_remaining_time(regs) == Caught(int(Get(regs, OverrideOid, PyInt(0))))

raw_preset_mode(regs) == Caught(int(Get(regs, ModeOid, PyInt(0))))

\* x > 0: None is not ordered against an int
GreaterThanZero(x) == IF x.t = "int" THEN (IF x.n > 0 THEN "True" ELSE "False") ELSE "TypeError"

HvacOff == <<"o", "f", "f">>
HvacHeating == <<"h", "e", "a", "t", "i", "n", "g">>

hvac_action(regs) ==
    LET m == raw_preset_mode(regs)
    IN IF m.t = "int" /\ m.n = 0 THEN PyStr(HvacOff) ELSE PyStr(HvacHeating)

\* faulty variant: the override test is >= 0
preset_mode_nonneg(regs) ==
    LET r == raw_custom_temp_remaining_time(regs)
    IN IF r.t # "int" THEN Raised("TypeError")
       ELSE IF r.n >= 0 THEN ListGet(preset_modes, PyInt(7))
       ELSE ListGet(preset_modes, raw_preset_mode(regs))

preset_mode(regs) ==
    LET g == GreaterThanZero(raw_custom_temp_remaining_time(regs))
    IN IF g = "TypeError" THEN Raised("TypeError")
       ELSE IF g = "True" THEN ListGet(preset_modes, PyInt(7))
       ELSE ListGet(preset_modes, raw_preset_mode(regs))

\* the state the host writes for the entities from one snapshot
StateOf(regs) ==
    [e \in Entities |->
        [current_temperature |-> current_temperature(e, regs),
         target_temperature |-> target_temperature(e, regs),
         hvac_action |-> hvac_action(regs),
         preset_mode |-> preset_mode(regs)]]

\* ------------------------------------------------------------ the state
VARIABLES
    dev,            \* the device's registers: path -> string
    oids,           \* coordinator.data["oids"]: the last polled snapshot of dev
    view,           \* the entity states written from the snapshot
    pc,             \* per entity: the await its command is suspended at
    cmd,            \* per entity: the command in flight, or the last one
    trace,          \* per entity: the client and coordinator calls of that command that returned
    attempts,       \* per entity: the client.update calls that command made
    ncmd            \* commands issued so far

vars == <<dev, oids, view, pc, cmd, trace, attempts, ncmd>>

Update(oid, val) == [op |-> "update", oid |-> oid, val |-> val]
Refresh == [op |-> "refresh", oid |-> "", val |-> <<>>]

\* the register table with one register written
Put(regs, oid, val) == [o \in (DOMAIN regs) \cup {oid} |-> IF o = oid THEN val ELSE regs[o]]

\* the minutes a set temperature stays in force
OverrideMinutes == <<"4", "0", "0">>
OverrideOff == <<"0">>

\* ------------------------------------------------------- initial states
Opt(S) == {<<>>} \cup {<<v>> : v \in S}
Malformed == <<"a", "b", "c">>

\* the register table holding the registers that opt gives a value
RegisterMap(opt) == [o \in {p \in DOMAIN opt : opt[p] # <<>>} |-> opt[o][1]]

Registers(c, t, o, m, b) ==
    RegisterMap([p \in AllOids |->
        CASE p = CurrentTempOid -> c
          [] p = TargetTempOid -> t
          [] p = OverrideOid -> o
          [] p = ModeOid -> m
          [] p = BiasOid -> b
          [] OTHER -> <<>>])

Idle == [name |-> "none", arg |-> PyNone, status |-> "none", devOverride |-> FALSE, base |-> <<>>]

\* the entities are set up from the coordinator's first snapshot; no command yet
SetUp ==
    /\ oids = dev
    /\ view = StateOf(oids)
    /\ pc = [e \in Entities |-> "idle"]
    /\ cmd = [e \in Entities |-> Idle]
    /\ trace = [e \in Entities |-> <<>>]
    /\ attempts = [e \in Entities |-> 0]
    /\ ncmd = 0

\* the devices the commands are run against: the override register idle, armed or
\* malformed, the bias register absent or set
Init ==
    /\ \E o \in {<<v>> : v \in {<<"0">>, <<"4", "0", "0">>, Malformed}},
          b \in Opt({<<"1", ".", "0">>}) :
          dev = Registers(<<<<"2", "1", ".", "5">>>>, <<<<"2", "0", ".", "0">>>>, o, <<<<"3">>>>, b)
    /\ SetUp

\* the register tables the derived properties are read from
ReadCurrent == {<<"2", "1", ".", "5">>, <<"0">>, Malformed}
ReadTarget == {<<"2", "0", ".", "0">>, <<"0">>, Malformed}
ReadOverride == {<<"0">>, <<"4", "0", "0">>, <<"-", "5">>, Malformed}
ReadMode == {<<"0">>, <<"3">>, <<"6">>, Malformed}
ReadBias == {<<"1", ".", "0">>, <<"-", "0", ".", "5">>, Malformed}

ReadValues(o) ==
    CASE o = CurrentTempOid -> ReadCurrent
      [] o = TargetTempOid -> ReadTarget
      [] o = OverrideOid -> ReadOverride
      [] o = ModeOid -> ReadMode
      [] o = BiasOid -> ReadBias
      [] OTHER -> {}

InitRead ==
    /\ \E c \in Opt(ReadCurrent), t \in Opt(ReadTarget), o \in Opt(ReadOverride),
          m \in Opt(ReadMode), b \in Opt(ReadBias) :
          dev = Registers(c, t, o, m, b)
    /\ SetUp

\* ------------------------------------------------------------- commands
PresetArgs == {<<"3">>, <<"7">>, <<"9">>}
TemperatureArgs == {PyFloat(220)}
CompensationArgs == {PyFloat(-5)}
HvacModeArgs == {<<"o", "f", "f">>}

\* the device's override minutes are positive
DeviceOverrideActive == GreaterThanZero(raw_custom_temp_remaining_time(dev)) = "True"

\* a service call reaches entity e
Called(e, name, arg, status) ==
    /\ pc[e] = "idle"
    /\ ncmd < MaxCmds
    /\ ncmd' = ncmd + 1
    /\ cmd' = [cmd EXCEPT ![e] = [name |-> name, arg |-> arg, status |-> status,
                                  devOverride |-> DeviceOverrideActive, base |-> oids]]
    /\ trace' = [trace EXCEPT ![e] = <<>>]
    /\ attempts' = [attempts EXCEPT ![e] = 0]

\* the command of e ends: it returns ("ok") or an exception leaves it
Ends(e, status) ==
    /\ pc' = [pc EXCEPT ![e] = "idle"]
    /\ cmd' = [cmd EXCEPT ![e].status = status]

\* client.update(oid, val) returns: the device holds val
Written(e, oid, val) ==
    /\ dev' = Put(dev, oid, val)
    /\ attempts' = [attempts EXCEPT ![e] = @ + 1]

\* coordinator.async_request_refresh() after the events evs, and the command returns
RefreshRequested(e, evs) ==
    /\ trace' = [trace EXCEPT ![e] = @ \o evs \o <<Refresh>>]
    /\ Ends(e, "ok")

\* faulty variant: a refresh is requested on the way out (try/finally)
TransportFailed_refresh(e) ==
    /\ attempts' = [attempts EXCEPT ![e] = @ + 1]
    /\ trace' = [trace EXCEPT ![e] = @ \o <<Refresh>>]
    /\ Ends(e, "TransportError")
    /\ UNCHANGED <<dev, oids, view, ncmd>>

\* client.update raises: nothing catches it, the exception leaves the command
TransportFailed(e) ==
    /\ attempts' = [attempts EXCEPT ![e] = @ + 1]
    /\ Ends(e, "TransportError")
    /\ UNCHANGED <<dev, oids, view, trace, ncmd>>

\* the awaits a command can be suspended at, each a client.update call
AwaitModeUpdate == "preset: update mode"
AwaitCancelUpdate == "preset: update override"
AwaitSetpointUpdate == "temperature: update setpoint"
AwaitArmUpdate == "temperature: update override"
AwaitBiasUpdate == "compensation: update bias"

\* faulty variant: the mode is switched off by a write of "0" to the mode register
async_set_hvac_mode_writes(e) ==
    \E m \in HvacModeArgs :
        /\ pc[e] = "idle"
        /\ ncmd < MaxCmds
        /\ ncmd' = ncmd + 1
        /\ cmd' = [cmd EXCEPT ![e] = [name |-> "set_hvac_mode", arg |-> PyStr(m), status |-> "ok",
                                      devOverride |-> DeviceOverrideActive, base |-> oids]]
        /\ dev' = Put(dev, ModeOid, <<"0">>)
        /\ trace' = [trace EXCEPT ![e] = <<Update(ModeOid, <<"0">>)>>]
        /\ attempts' = [attempts EXCEPT ![e] = 1]
        /\ UNCHANGED <<oids, view, pc>>

\* async_set_hvac_mode: a body of one docstring
async_set_hvac_mode(e) ==
    \E m \in HvacModeArgs :
        /\ Called(e, "set_hvac_mode", PyStr(m), "ok")
        /\ UNCHANGED <<dev, oids, view, pc>>

\* async_set_preset_mode up to its first await
async_set_preset_mode(e) ==
    \E label \in PresetArgs :
        LET id_mode == ListIndex(preset_modes, label)
        IN /\ Called(e, "set_preset", PyStr(label),
                     IF IsRaised(id_mode) THEN id_mode.t ELSE "running")
           /\ pc' = [pc EXCEPT ![e] = IF IsRaised(id_mode) THEN "idle" ELSE AwaitModeUpdate]
           /\ UNCHANGED <<dev, oids, view>>

\* the mode write returned; then the override test on the snapshot
PresetModeWritten(e) ==
    /\ pc[e] = AwaitModeUpdate
    /\ LET val == str(ListIndex(preset_modes, cmd[e].arg.s))
           g == GreaterThanZero(raw_custom_temp_remaining_time(oids))
       IN /\ Written(e, ModeOid, val)
          /\ IF g = "TypeError"
             THEN /\ trace' = [trace EXCEPT ![e] = @ \o <<Update(ModeOid, val)>>]
                  /\ Ends(e, "TypeError")
             ELSE IF g = "True"
             THEN /\ trace' = [trace EXCEPT ![e] = @ \o <<Update(ModeOid, val)>>]
                  /\ pc' = [pc EXCEPT ![e] = AwaitCancelUpdate]
                  /\ UNCHANGED cmd
             ELSE RefreshRequested(e, <<Update(ModeOid, val)>>)
    /\ UNCHANGED <<oids, view, ncmd>>

\* the cancelling write returned
PresetOverrideWritten(e) ==
    /\ pc[e] = AwaitCancelUpdate
    /\ Written(e, OverrideOid, OverrideOff)
    /\ RefreshRequested(e, <<Update(OverrideOid, OverrideOff)>>)
    /\ UNCHANGED <<oids, view, ncmd>>

\* async_set_temperature up to its first await
async_set_temperature(e) ==
    \E v \in TemperatureArgs :
        /\ Called(e, "set_temperature", v, "running")
        /\ pc' = [pc EXCEPT ![e] = AwaitSetpointUpdate]
        /\ UNCHANGED <<dev, oids, view>>

\* faulty variant: the override is armed only when the snapshot shows none
TemperatureSetpointWritten_armIfIdle(e) ==
    /\ pc[e] = AwaitSetpointUpdate
    /\ Written(e, SetpointOid, str(cmd[e].arg))
    /\ IF GreaterThanZero(raw_custom_temp_remaining_time(oids)) = "True"
       THEN RefreshRequested(e, <<Update(SetpointOid, str(cmd[e].arg))>>)
       ELSE /\ trace' = [trace EXCEPT ![e] = @ \o <<Update(SetpointOid, str(cmd[e].arg))>>]
            /\ pc' = [pc EXCEPT ![e] = AwaitArmUpdate]
            /\ UNCHANGED cmd
    /\ UNCHANGED <<oids, view, ncmd>>

\* the setpoint write returned
TemperatureSetpointWritten(e) ==
    /\ pc[e] = AwaitSetpointUpdate
    /\ Written(e, SetpointOid, str(cmd[e].arg))
    /\ trace' = [trace EXCEPT ![e] = @ \o <<Update(SetpointOid, str(cmd[e].arg))>>]
    /\ pc' = [pc EXCEPT ![e] = AwaitArmUpdate]
    /\ UNCHANGED <<oids, view, cmd, ncmd>>

\* the arming write returned
TemperatureOverrideWritten(e) ==
    /\ pc[e] = AwaitArmUpdate
    /\ Written(e, OverrideOid, OverrideMinutes)
    /\ RefreshRequested(e, <<Update(OverrideOid, OverrideMinutes)>>)
    /\ UNCHANGED <<oids, view, ncmd>>

\* set_current_temp_compensation up to its first await; the biased entity alone has it
set_current_temp_compensation(e) ==
    /\ e = Biased
    /\ \E c \in CompensationArgs :
        /\ Called(e, "set_current_temp_compensation", c, "running")
        /\ pc' = [pc EXCEPT ![e] = AwaitBiasUpdate]
        /\ UNCHANGED <<dev, oids, view>>

\* the bias write returned
CompensationWritten(e) ==
    /\ pc[e] = AwaitBiasUpdate
    /\ Written(e, BiasOid, str(cmd[e].arg))
    /\ RefreshRequested(e, <<Update(BiasOid, str(cmd[e].arg))>>)
    /\ UNCHANGED <<oids, view, ncmd>>

\* the client.update a command awaits raises
UpdateFails(e) ==
    /\ pc[e] # "idle"
    /\ TransportFailed(e)

\* the coordinator polls the device (every SCAN_INTERVAL, or on request) and the
\* entities write their state from the new snapshot
CoordinatorRefresh ==
    /\ oids' = dev
    /\ view' = StateOf(oids')
    /\ UNCHANGED <<dev, pc, cmd, trace, attempts, ncmd>>

Next ==
    \/ \E e \in Entities : async_set_hvac_mode(e)
    \/ \E e \in Entities : async_set_preset_mode(e)
    \/ \E e \in Entities : PresetModeWritten(e)
    \/ \E e \in Entities : PresetOverrideWritten(e)
    \/ \E e \in Entities : async_set_temperature(e)
    \/ \E e \in Entities : TemperatureSetpointWritten(e)
    \/ \E e \in Entities : TemperatureOverrideWritten(e)
    \/ \E e \in Entities : set_current_temp_compensation(e)
    \/ \E e \in Entities : CompensationWritten(e)
    \/ \E e \in Entities : UpdateFails(e)
    \/ CoordinatorRefresh

Spec == Init /\ [][Next]_vars

\* a register of the device takes another value, and the coordinator polls it
RegisterPolled ==
    \E o \in DOMAIN dev :
        \E v \in ReadValues(o) :
            /\ dev' = Put(dev, o, v)
            /\ oids' = dev'
            /\ view' = StateOf(oids')
            /\ UNCHANGED <<pc, cmd, trace, attempts, ncmd>>

NextRead == RegisterPolled \/ CoordinatorRefresh

SpecRead == InitRead /\ [][NextRead]_vars

TypeOK ==
    /\ DOMAIN dev \subseteq AllOids
    /\ DOMAIN oids \subseteq AllOids
    /\ view = StateOf(oids)
    /\ ncmd \in 0..MaxCmds
    /\ \A e \in Entities : attempts[e] \in 0..2

\* ================================================================ claims
Labels == {<<"0">>, <<"1">>, <<"2">>, <<"3">>, <<"4">>, <<"5">>, <<"6">>, <<"7">>}

\* C1 (as stated): no command ever writes "7" to the mode register.
C1_Label7NeverWritten ==
    \A e \in Entities : \A i \in 1..Len(trace[e]) : trace[e][i] # Update(ModeOid, <<"7">>)

\* the register o of the snapshot holds a string that int() / float() rejects
MalformedInt(o) == o \in DOMAIN oids /\ IsRaised(int(PyStr(oids[o])))
MalformedFloat(o) == o \in DOMAIN oids /\ IsRaised(float(PyStr(oids[o])))
SnapshotOverridePositive ==
    /\ OverrideOid \in DOMAIN oids
    /\ ~MalformedInt(OverrideOid)
    /\ int(PyStr(oids[OverrideOid])).n > 0

\* C2 (as stated): a derived property that reads a register holding a
\* non-numeric string raises nothing and is absent (None).
C2_FailSoftReads ==
    \A e \in Entities :
        /\ (MalformedFloat(CurrentTempOid) \/ (e = Biased /\ MalformedFloat(BiasOid)))
              => view[e].current_temperature = PyNone
        /\ (MalformedFloat(TargetTempOid) \/ (e = Biased /\ MalformedFloat(BiasOid)))
              => view[e].target_temperature = PyNone
        /\ MalformedInt(ModeOid) => view[e].hvac_action = PyNone
        /\ (MalformedInt(OverrideOid) \/ (~SnapshotOverridePositive /\ MalformedInt(ModeOid)))
              => view[e].preset_mode = PyNone

C4_SetTemperatureEvents ==
    \A e \in Entities :
        (cmd[e].name = "set_temperature" /\ cmd[e].status = "ok")
            => /\ trace[e] = <<Update(SetpointOid, str(cmd[e].arg)),
                               Update(OverrideOid, <<"4", "0", "0">>),
                               Refresh>>
               /\ attempts[e] = 2
               /\ cmd[e].arg = PyFloat(220) => trace[e][1].val = <<"2", "2", ".", "0">>

\* a set_temperature returned that was called with the override already armed
C4_Witness ==
    \E e \in Entities :
        /\ cmd[e].name = "set_temperature" /\ cmd[e].status = "ok"
        /\ cmd[e].devOverride
        /\ SnapshotOverridePositive

\* C5: set_preset with a label outside "0".."7" ends in ValueError having made
\* no client.update call and no refresh request.
C5_InvalidLabelRejected ==
    \A e \in Entities :
        (cmd[e].name = "set_preset" /\ cmd[e].arg.s \notin Labels)
            => /\ cmd[e].status = "ValueError"
               /\ pc[e] = "idle"
               /\ trace[e] = <<>>
               /\ attempts[e] = 0

\* set_preset("9") was rejected while the device's override was active
C5_Witness ==
    \E e \in Entities :
        /\ cmd[e].name = "set_preset" /\ cmd[e].arg.s = <<"9">>
        /\ cmd[e].status = "ValueError"
        /\ cmd[e].devOverride

\* C6 (as stated): with the bias register absent the two variants read the same
\* current and the same target temperature.
C6_BiasAbsentSameTemperatures ==
    BiasOid \notin DOMAIN oids
        => /\ view[Biased].current_temperature = view[Unbiased].current_temperature
           /\ view[Biased].target_temperature = view[Unbiased].target_temperature

\* C7: preset is "7" whenever the override minutes are positive, whatever the
\* mode register holds; with override minutes <= 0 and a mode m in 0..6 it is
\* the decimal string of m.
C7_PresetReference ==
    \A e \in Entities :
        LET r == int(Get(oids, OverrideOid, PyInt(0)))
            m == int(Get(oids, ModeOid, PyInt(0)))
        IN /\ (r.t = "int" /\ r.n > 0) => view[e].preset_mode = PyStr(<<"7">>)
           /\ (r.t = "int" /\ r.n <= 0 /\ m.t = "int" /\ m.n \in 0..6)
                 => view[e].preset_mode = PyStr(<<Digits[m.n + 1]>>)

\* the override is active over a malformed mode register
C7_Witness ==
    /\ SnapshotOverridePositive
    /\ MalformedInt(ModeOid)
    /\ view[Biased].preset_mode = PyStr(<<"7">>)

\* C8: a command whose client.update raised has ended with that failure; its
\* earlier writes stand, the failed call was its last call (no retry, no
\* compensating write) and it requested no refresh.
C8_FailForward ==
    \A e \in Entities :
        cmd[e].status = "TransportError"
            => /\ pc[e] = "idle"
               /\ \A i \in 1..Len(trace[e]) : trace[e][i].op = "update"
               /\ attempts[e] = Len(trace[e]) + 1
               /\ (cmd[e].name = "set_temperature" /\ attempts[e] = 2)
                     => trace[e] = <<Update(SetpointOid, str(cmd[e].arg))>>

\* set_temperature failed at the arming write, after its setpoint write
C8_Witness ==
    \E e \in Entities :
        /\ cmd[e].name = "set_temperature" /\ cmd[e].status = "TransportError"
        /\ attempts[e] = 2
        /\ SetpointOid \in DOMAIN dev

\* C9: a write to the override register is "400" by set_temperature or "0" by
\* set_preset; set_hvac_mode and set_current_temp_compensation write neither the
\* override nor the mode register; set_hvac_mode makes no call at all.
C9_OverrideFrame ==
    \A e \in Entities :
        /\ \A i \in 1..Len(trace[e]) :
              LET ev == trace[e][i]
              IN /\ (ev.op = "update" /\ ev.oid = OverrideOid)
                    => \/ cmd[e].name = "set_temperature" /\ ev.val = <<"4", "0", "0">>
                       \/ cmd[e].name = "set_preset" /\ ev.val = <<"0">>
                 /\ cmd[e].name \in {"set_hvac_mode", "set_current_temp_compensation"}
                    => ev.oid \notin {OverrideOid, ModeOid}
        /\ cmd[e].name = "set_hvac_mode" => (trace[e] = <<>> /\ attempts[e] = 0)

\* a compensation command and a set_hvac_mode have both returned
C9_Witness ==
    /\ cmd[Biased].name = "set_current_temp_compensation" /\ cmd[Biased].status = "ok"
    /\ cmd[Unbiased].name = "set_hvac_mode" /\ cmd[Unbiased].status = "ok"

\* set_temperature of e returned and the snapshot holds what the snapshot at the
\* call held, with the two registers the command wrote and nothing else changed
RefreshedToWritten(e) ==
    /\ cmd[e].name = "set_temperature" /\ cmd[e].status = "ok"
    /\ oids = Put(Put(cmd[e].base, SetpointOid, str(cmd[e].arg)), OverrideOid, OverrideMinutes)

\* C10 (as stated): then target_temperature of e is v.
C10_RoundTrip ==
    \A e \in Entities : RefreshedToWritten(e) => view[e].target_temperature = cmd[e].arg

\* C10 (amended): then target_temperature of e is what it was at the call.
C10_TargetUnchanged ==
    \A e \in Entities :
        RefreshedToWritten(e) => view[e].target_temperature = target_temperature(e, cmd[e].base)

\* the biased entity after such a refresh, with a target and a bias register
C10_Witness ==
    /\ RefreshedToWritten(Biased)
    /\ TargetTempOid \in DOMAIN oids
    /\ BiasOid \in DOMAIN oids
    /\ oids[SetpointOid] = <<"2", "2", ".", "0">>

====
